---- MODULE Spec2Model ----
(***************************************************************************)
(* Authentication subsystem of the private-assistant web UI backend:       *)
(*   app/core/security.py     token classification and validation          *)
(*   app/core/jwks_client.py  OAuthJWKSClient, the cached provider key set *)
(*   app/api/deps.py          get_current_user, _get_or_create_oauth_user  *)
(*   app/models.py            the User table and its unique constraints    *)
(* Times are seconds.  Python's None is the string "None"; a dict is a     *)
(* TLA+ function whose DOMAIN is the set of keys present.                   *)
(***************************************************************************)
EXTENDS Integers, Sequences, FiniteSets, TLC

None == "None"

\* ------------------------------------------------------------------------
\* Bounds of the model
\* ------------------------------------------------------------------------
\* number of clock advances in one behaviour
MaxTicks == 4
\* number of concurrent authentication requests
NumReqs == 2

\* ------------------------------------------------------------------------
\* Program constants
\* ------------------------------------------------------------------------
\* OAuthJWKSClient._cache_duration = timedelta(hours=1), in seconds
CACHE_DURATION == 3600
\* JWTClaimsRegistry(leeway=120)
LEEWAY == 120

\* ------------------------------------------------------------------------
\* Settings (app/core/config.py)
\* ------------------------------------------------------------------------
IssuerUrl == "https://idp.example"
\* the same issuer, configured with a trailing slash
IssuerUrlSlash == "https://idp.example/"
ClientId == "client-1"

\* Settings._validate_oauth_config: with DISABLE_OAUTH false both the issuer
\* and the client id are required, so only these configurations exist.
\* security.py reads the issuer as settings.oauth.ISSUER, jwks_client.py and
\* deps.py as settings.OAUTH_ISSUER: one setting, the field ISSUER here.
ValidSettings ==
    { s \in [DISABLE_OAUTH : BOOLEAN, ISSUER : {None, IssuerUrl, IssuerUrlSlash},
              CLIENT_ID : {None, ClientId}] :
        ~s.DISABLE_OAUTH => (s.ISSUER # None /\ s.CLIENT_ID # None) }

\* str.rstrip("/") on the issuer strings of the model: every trailing slash
\* is removed
Rstrip(s) == IF s \in {"https://idp.example/", "https://idp.example//"} THEN "https://idp.example"
             ELSE IF s = "https://evil.example/" THEN "https://evil.example"
             ELSE s

\* dict.get(k): the value, or None when the key is absent
Get(d, k) == IF k \in DOMAIN d THEN d[k] ELSE None

\* ------------------------------------------------------------------------
\* JSON bodies the key endpoint can answer with (response.json())
\* ------------------------------------------------------------------------
JsonBodies == {"jwks_k1", "jwks_k2", "dict_empty", "dict_nokeys", "dict_keys_int",
               "list_nonempty", "list_empty", "null"}

\* Python truthiness of the parsed body
Truthy(b) == b \notin {None, "dict_empty", "list_empty", "null"}
\* the parsed body is a dict (has .get)
IsDict(b) == b \in {"jwks_k1", "jwks_k2", "dict_empty", "dict_nokeys", "dict_keys_int"}
\* len(body.get('keys', [])) evaluates without raising
KeysLenOk(b) == IsDict(b) /\ b # "dict_keys_int"
\* KeySet.import_key_set(body) succeeds: a dict with a list of keys under "keys"
Importable(b) == b \in {"jwks_k1", "jwks_k2"}
\* key ids of an imported key set
KeyIds(b) == IF b = "jwks_k1" THEN {"k1"} ELSE IF b = "jwks_k2" THEN {"k2"} ELSE {}

\* What the key endpoint does with one GET
Responses ==
    {[kind |-> "transport_error"], [kind |-> "http_error"], [kind |-> "bad_json"]}
    \cup {[kind |-> "ok", body |-> b] : b \in JsonBodies}

\* ------------------------------------------------------------------------
\* OAuthJWKSClient (app/core/jwks_client.py)
\* ------------------------------------------------------------------------
\* _fetched_at is <<>> for None and <<t>> for the time t
EmptyCache == [keys |-> None, fetched_at |-> <<>>]

\* a cache test that never expires the entry
CacheFreshNoExpiry(c, t) ==
    /\ Truthy(c.keys)
    /\ c.fetched_at # <<>>

\* the cache test of fetch_jwks
CacheFresh(c, t) ==
    /\ Truthy(c.keys)
    /\ c.fetched_at # <<>>
    /\ t - c.fetched_at[1] < CACHE_DURATION

\* a store that answers a failed refresh with the entry it already holds
StoreResponseStale(c, t, resp) ==
    IF resp.kind # "ok"
    THEN IF Truthy(c.keys)
         THEN [cache |-> c, ok |-> TRUE, value |-> c.keys, err |-> None]
         ELSE [cache |-> c, ok |-> FALSE, value |-> None, err |-> "fetch"]
    ELSE LET c2 == [keys |-> resp.body, fetched_at |-> <<t>>]
         IN  IF KeysLenOk(resp.body)
             THEN [cache |-> c2, ok |-> TRUE, value |-> resp.body, err |-> None]
             ELSE [cache |-> c2, ok |-> FALSE, value |-> None, err |-> "body"]

\* a store that writes the keys of the response and leaves the timestamp of
\* the entry as it was
StoreResponseKeysOnly(c, t, resp) ==
    IF resp.kind = "transport_error" THEN [cache |-> c, ok |-> FALSE, value |-> None, err |-> "transport"]
    ELSE IF resp.kind = "http_error" THEN [cache |-> c, ok |-> FALSE, value |-> None, err |-> "status"]
    ELSE IF resp.kind = "bad_json" THEN [cache |-> c, ok |-> FALSE, value |-> None, err |-> "json"]
    ELSE LET c2 == [keys |-> resp.body, fetched_at |-> c.fetched_at]
         IN  IF KeysLenOk(resp.body)
             THEN [cache |-> c2, ok |-> TRUE, value |-> resp.body, err |-> None]
             ELSE [cache |-> c2, ok |-> FALSE, value |-> None, err |-> "body"]

\* the part of fetch_jwks after the GET returned: raise_for_status, json(),
\* the two assignments, the log line that reads the keys, the return.
\* Result: the cache afterwards and the call's outcome.
StoreResponse(c, t, resp) ==
    IF resp.kind = "transport_error" THEN [cache |-> c, ok |-> FALSE, value |-> None, err |-> "transport"]
    ELSE IF resp.kind = "http_error" THEN [cache |-> c, ok |-> FALSE, value |-> None, err |-> "status"]
    ELSE IF resp.kind = "bad_json" THEN [cache |-> c, ok |-> FALSE, value |-> None, err |-> "json"]
    ELSE LET c2 == [keys |-> resp.body, fetched_at |-> <<t>>]
         IN  IF KeysLenOk(resp.body)
             THEN [cache |-> c2, ok |-> TRUE, value |-> resp.body, err |-> None]
             ELSE [cache |-> c2, ok |-> FALSE, value |-> None, err |-> "body"]

\* a fetch that repeats the GET once when the first one fails
FetchedRetry(r) ==
    [cache |-> r.cache, ok |-> r.ok, value |-> r.value, err |-> r.err,
     net |-> IF r.ok THEN 1 ELSE 2]

\* the outcome r of the store as the outcome of a call that issued one GET
Fetched(r) == [cache |-> r.cache, ok |-> r.ok, value |-> r.value, err |-> r.err, net |-> 1]

\* fetch_jwks run without interruption at time t; resp is what the endpoint
\* answers if it is asked.  net is the number of GETs issued.
FetchJwks(c, t, issuer, resp) ==
    IF CacheFresh(c, t)
    THEN [cache |-> c, ok |-> TRUE, value |-> c.keys, err |-> None, net |-> 0]
    ELSE IF issuer = None
    THEN [cache |-> c, ok |-> FALSE, value |-> None, err |-> "not configured", net |-> 0]
    ELSE Fetched(StoreResponse(c, t, resp))

\* clear_cache
ClearCache(c) == EmptyCache

\* ------------------------------------------------------------------------
\* Tokens
\* ------------------------------------------------------------------------
\* A bearer token: the number of dot-separated segments, what the middle
\* segment decodes to ("object": a JSON object, "nonobject": other JSON,
\* "nonjson": base64 of text that is no JSON, "garbage": not base64), the
\* key that made the signature ("local": the service's SECRET_KEY,
\* "k1"/"k2": provider keys, "forged": any other key)
\* and, for an object payload, the claims.
\* aud is [list |-> BOOLEAN, v |-> sequence]: a JSON string s is
\* [list |-> FALSE, v |-> <<s>>], a JSON array is [list |-> TRUE, v |-> it].
NoClaims == [k \in {} |-> None]

Token(segs, payload, sig, claims) ==
    [segs |-> segs, payload |-> payload, sig |-> sig, claims |-> claims]

AudStr(s) == [list |-> FALSE, v |-> <<s>>]
AudList(q) == [list |-> TRUE, v |-> q]

\* truthiness of an aud claim: a non-empty string or a non-empty list
AudTruthy(a) == IF a.list THEN a.v # <<>> ELSE a.v[1] # ""

\* aud if isinstance(aud, list) else [aud], as a set of members
AudMembers(a) == {a.v[i] : i \in 1..Len(a.v)}

\* token_obj = joserfc jwt.decode(token, key): the compact form parses and the
\* signature verifies under a key of `keyids`.  No claim is validated here.
Decodes(tok, keyids) ==
    /\ tok.segs = 3
    /\ tok.payload = "object"
    /\ tok.sig \in keyids

\* ------------------------------------------------------------------------
\* app/core/security.py
\* ------------------------------------------------------------------------
TokenType_LOCAL == "local"
TokenType_OAUTH == "oauth"

\* a classifier that routes every token carrying an issuer to the remote
\* validator
detect_token_type_anyissuer(tok, s) ==
    IF tok.segs # 3 \/ tok.payload # "object" THEN TokenType_LOCAL
    ELSE IF Get(tok.claims, "iss") \in {None, ""} \/ s.ISSUER = None THEN TokenType_LOCAL
    ELSE TokenType_OAUTH

\* an iss claim that is not a JSON string: "nonstring" is truthy (a number,
\* a non-empty list), "nonstring_falsy" is falsy (0, false, an empty list)
NonStrings == {"nonstring", "nonstring_falsy"}

\* Python truthiness of payload.get("iss")
IssTruthy(issuer) == issuer \notin {None, "", "nonstring_falsy"}

\* a classifier without the try/except: what raises inside leaves it
detect_token_type_notry(tok, s) ==
    IF tok.segs # 3 THEN TokenType_LOCAL
    ELSE IF tok.payload # "object" THEN "raised"
    ELSE LET issuer == Get(tok.claims, "iss")
         IN  IF ~IssTruthy(issuer) THEN TokenType_LOCAL
             ELSE IF s.ISSUER = None THEN TokenType_LOCAL
             ELSE IF issuer \in NonStrings THEN "raised"
             ELSE IF Rstrip(issuer) = Rstrip(s.ISSUER) THEN TokenType_OAUTH
             ELSE TokenType_LOCAL

\* a classifier that compares the issuers as they are
detect_token_type_exact(tok, s) ==
    IF tok.segs # 3 \/ tok.payload # "object" THEN TokenType_LOCAL
    ELSE IF ~IssTruthy(Get(tok.claims, "iss")) \/ s.ISSUER = None THEN TokenType_LOCAL
    ELSE IF tok.claims.iss = s.ISSUER THEN TokenType_OAUTH
    ELSE TokenType_LOCAL

\* detect_token_type: never raises, every failure is TokenType_LOCAL.
\* A wrong segment count returns at once; a middle segment that is not
\* base64, not JSON, or JSON without .get raises inside the try; so does
\* .rstrip on a truthy iss that is no string.
detect_token_type(tok, s) ==
    IF tok.segs # 3 THEN TokenType_LOCAL
    ELSE IF tok.payload # "object" THEN TokenType_LOCAL
    ELSE LET issuer == Get(tok.claims, "iss")
         IN  IF ~IssTruthy(issuer) THEN TokenType_LOCAL
             ELSE IF s.ISSUER = None THEN TokenType_LOCAL
             ELSE IF issuer \in NonStrings THEN TokenType_LOCAL
             ELSE IF Rstrip(issuer) = Rstrip(s.ISSUER) THEN TokenType_OAUTH
             ELSE TokenType_LOCAL

Fail(e) == [ok |-> FALSE, claims |-> NoClaims, err |-> e]
Ok(claims) == [ok |-> TRUE, claims |-> claims, err |-> None]

\* a local validator that does not verify the signature
validate_local_token_nosig(tok, t) ==
    IF tok.segs = 3 /\ tok.payload = "object" THEN Ok(tok.claims)
    ELSE Fail("Local token validation failed")

\* validate_local_token at time t: decode under the local key, return the claims
validate_local_token(tok, t) ==
    IF Decodes(tok, {"local"}) THEN Ok(tok.claims)
    ELSE Fail("Local token validation failed")

\* a claims check without the clock-skew tolerance
ClaimsValidNoLeeway(claims, issuer, t) ==
    /\ Get(claims, "iss") # None
    /\ Get(claims, "sub") # None
    /\ claims.iss = issuer
    /\ claims.sub # ""
    /\ "exp" \in DOMAIN claims => ~(claims.exp < t)
    /\ "nbf" \in DOMAIN claims => ~(claims.nbf > t)
    /\ "iat" \in DOMAIN claims => ~(claims.iat > t)

\* JWTClaimsRegistry(iss={essential, value}, sub={essential}, leeway).validate
ClaimsValid(claims, issuer, t) ==
    /\ Get(claims, "iss") # None
    /\ Get(claims, "sub") # None
    /\ claims.iss = issuer
    /\ claims.sub # ""
    /\ "exp" \in DOMAIN claims => ~(claims.exp < t - LEEWAY)
    /\ "nbf" \in DOMAIN claims => ~(claims.nbf > t + LEEWAY)
    /\ "iat" \in DOMAIN claims => ~(claims.iat > t + LEEWAY)

\* the audience block of validate_oauth_token
AudienceOk(claims, client_id) ==
    \/ client_id = None
    \/ "aud" \notin DOMAIN claims
    \/ ~AudTruthy(claims.aud)
    \/ client_id \in AudMembers(claims.aud)

\* validate_oauth_token after fetch_jwks ended with f: the log line that
\* reads the key set, import_key_set, decode, the claims, the audience
CheckAgainstKeys(tok, s, t, f) ==
    IF ~f.ok THEN Fail("Failed to fetch JWKS")
    ELSE IF ~KeysLenOk(f.value) THEN Fail("Failed to fetch JWKS")
    ELSE IF ~Importable(f.value) THEN Fail("Invalid JWKS format")
    ELSE IF ~Decodes(tok, KeyIds(f.value)) THEN Fail("OAuth token validation failed")
    ELSE IF ~ClaimsValid(tok.claims, s.ISSUER, t) THEN Fail("OAuth token validation failed")
    ELSE IF ~AudienceOk(tok.claims, s.CLIENT_ID) THEN Fail("OAuth token validation failed")
    ELSE Ok(tok.claims)

\* the outcome of validate_oauth_token with what fetch_jwks did: the cache
\* afterwards, the GETs issued, whether fetch_jwks returned or raised
Validated(tok, s, t, f) ==
    [res |-> CheckAgainstKeys(tok, s, t, f), cache |-> f.cache, net |-> f.net,
     fetch |-> IF f.ok THEN "ok" ELSE "failed"]

\* a remote validator that does not look at the DISABLE_OAUTH flag
validate_oauth_token_nodisable(tok, s, t, c, resp) ==
    Validated(tok, s, t, FetchJwks(c, t, s.ISSUER, resp))

\* validate_oauth_token at time t with cache c; resp is what the key endpoint
\* answers if asked
validate_oauth_token(tok, s, t, c, resp) ==
    IF s.DISABLE_OAUTH \/ s.ISSUER = None
    THEN [res |-> Fail("OAuth is disabled or not configured"), cache |-> c, net |-> 0, fetch |-> None]
    ELSE Validated(tok, s, t, FetchJwks(c, t, s.ISSUER, resp))

\* ------------------------------------------------------------------------
\* State
\* ------------------------------------------------------------------------
VARIABLES
    settings,   \* the Settings instance (get_settings())
    now,        \* the wall clock, seconds
    ticks,      \* clock advances so far
    cache,      \* OAuthJWKSClient singleton: [keys, fetched_at]
    held,       \* the bearer token the client presents
    users,      \* the rows of the User table
    reqs,       \* the concurrent provisioning requests, by request number
    last        \* the latest operation: what it saw, did and answered

clockVars == <<now, ticks>>
vars == <<settings, now, ticks, cache, held, users, reqs, last>>

NoOp == [op |-> "none"]

\* the clock advances by one second or by two seconds less than the window
TickSteps == {1, CACHE_DURATION - 2}

Tick ==
    /\ ticks < MaxTicks
    /\ \E d \in TickSteps : now' = now + d
    /\ ticks' = ticks + 1
    /\ UNCHANGED <<settings, cache, held, users, reqs, last>>

\* ------------------------------------------------------------------------
\* Remote validation against the shared key cache, one call at a time
\* ------------------------------------------------------------------------
FarFuture == 1000 * CACHE_DURATION

RemoteClaims(sub) == [iss |-> IssuerUrl, sub |-> sub, exp |-> FarFuture, aud |-> AudStr(ClientId)]

\* tokens presented in the cache specification: signed by either provider key
CacheTokens == {Token(3, "object", k, RemoteClaims("s1")) : k \in {"k1", "k2"}}

\* the record of a validate_oauth_token call that ended with r
ValidateRecord(r, resp, t, c) ==
    [op |-> "validate", at |-> t, pre |-> c,
     resp |-> IF r.net = 1 THEN resp.kind ELSE None,
     net |-> r.net, fetch |-> r.fetch, ok |-> r.res.ok, claims |-> r.res.claims,
     served |-> IF r.fetch = "ok" THEN r.cache.keys ELSE None, cache |-> r.cache]

\* validate_oauth_token(held) with the key endpoint answering from R
RemoteValidateWith(R) ==
    /\ \E resp \in R :
          last' = ValidateRecord(validate_oauth_token(held, settings, now, cache, resp),
                                 resp, now, cache)
    /\ cache' = last'.cache
    /\ UNCHANGED <<settings, now, ticks, held, users, reqs>>

RemoteValidate == RemoteValidateWith(Responses)

ClearCacheCall ==
    /\ cache' = ClearCache(cache)
    /\ last' = [op |-> "clear", at |-> now, pre |-> cache]
    /\ UNCHANGED <<settings, now, ticks, held, users, reqs>>

InitCache ==
    /\ settings \in ValidSettings
    /\ now = 0
    /\ ticks = 0
    /\ cache = EmptyCache
    /\ held \in CacheTokens
    /\ users = {}
    /\ reqs = <<>>
    /\ last = NoOp

NextCache == Tick \/ RemoteValidate \/ ClearCacheCall

SpecCache == InitCache /\ [][NextCache]_vars

\* ------------------------------------------------------------------------
\* Properties of the key cache (SpecCache)
\* ------------------------------------------------------------------------
\* the cache entry is a key-set object stored by a fetch that returned
HoldsKeySet(c) == c.fetched_at # <<>> /\ Truthy(c.keys) /\ KeysLenOk(c.keys)

\* the latest operation is a validation that called fetch_jwks
FetchCalled == last.op = "validate" /\ last.fetch # None

Age(c, t) == t - c.fetched_at[1]

\* C4: a fetch_jwks call that finds a key set stored less than an hour ago
\* returns that key set without a network request and leaves the cache as it
\* was; one that finds it an hour old or older issues exactly one request;
\* and nothing is served from the cache (no request) unless it is younger
\* than the window.
C4_CacheFreshness ==
    FetchCalled =>
        /\ HoldsKeySet(last.pre) /\ Age(last.pre, last.at) < CACHE_DURATION
             => last.net = 0 /\ last.fetch = "ok" /\ last.served = last.pre.keys
                /\ cache = last.pre
        /\ HoldsKeySet(last.pre) /\ Age(last.pre, last.at) >= CACHE_DURATION
             => last.net = 1
        /\ last.fetch = "ok" /\ last.net = 0
             => last.pre.fetched_at # <<>> /\ Age(last.pre, last.at) < CACHE_DURATION

\* C4 witness: a call one second before the window closes was answered from
\* the cache
C4_Witness ==
    /\ FetchCalled
    /\ HoldsKeySet(last.pre)
    /\ Age(last.pre, last.at) = CACHE_DURATION - 1
    /\ last.net = 0
    /\ last.served = last.pre.keys

\* C4 witness of the other side: a call exactly one window later refetched
C4_WitnessStale ==
    /\ FetchCalled
    /\ HoldsKeySet(last.pre)
    /\ Age(last.pre, last.at) = CACHE_DURATION
    /\ last.net = 1

\* the refresh request failed: transport error, non-2xx status, unparsable body
RefreshFailed == last.resp \in {"transport_error", "http_error", "bad_json"}

\* C5: when a cached key set is older than the window and the refresh request
\* fails, fetch_jwks raises (it returns neither the stale nor an empty key
\* set), the cache keeps its entry, and the remote validation fails.
C5_StaleRefreshFailureIsHard ==
    ( /\ FetchCalled
      /\ Truthy(last.pre.keys) /\ last.pre.fetched_at # <<>>
      /\ Age(last.pre, last.at) >= CACHE_DURATION
      /\ RefreshFailed )
    => /\ last.fetch = "failed"
       /\ last.served = None
       /\ ~last.ok
       /\ last.net = 1

C5_Witness ==
    /\ FetchCalled
    /\ HoldsKeySet(last.pre)
    /\ Age(last.pre, last.at) >= CACHE_DURATION
    /\ RefreshFailed
    /\ last.fetch = "failed"

\* C6: after a fetch_jwks call that ended in failure the cache holds no entry
\* that a later call would serve as fresh.
C6_FailureDoesNotPoison ==
    (FetchCalled /\ last.fetch = "failed") => ~CacheFresh(cache, now)

\* ------------------------------------------------------------------------
\* Local tokens: create_access_token and validate_local_token (SpecLocal)
\* ------------------------------------------------------------------------
\* subjects handed to create_access_token: a str, a UUID, an int; v is the
\* text str() gives
Subjects == {[t |-> "str", v |-> "u1"], [t |-> "uuid", v |-> "u2"], [t |-> "int", v |-> "7"]}
PyStr(x) == x.v

\* datetime and timedelta carry fractions of a second: times that keep them
\* are counted in milliseconds
MILLI == 1000

\* the sub-second part of datetime.now(UTC), milliseconds
ClockFractions == {0, 500}

\* expires_delta values, milliseconds: negative, zero, half a second, whole
\* and fractional seconds, the cache window
Deltas == {-MILLI, 0, 500, MILLI, MILLI + 500, CACHE_DURATION * MILLI}

\* int(x) of a timestamp given in milliseconds: truncation toward zero
IntSeconds(ms) == IF ms >= 0 THEN ms \div MILLI ELSE -((-ms) \div MILLI)

\* a create_access_token that leaves expires_delta out of exp
create_access_token_nodelta(subject, delta, t_ms) ==
    Token(3, "object", "local", [exp |-> IntSeconds(t_ms), sub |-> PyStr(subject)])

\* create_access_token(subject, expires_delta) with the clock reading t_ms
create_access_token(subject, delta, t_ms) ==
    Token(3, "object", "local", [exp |-> IntSeconds(t_ms + delta), sub |-> PyStr(subject)])

\* no token yet: a string that is no JWT
NoToken == Token(1, "garbage", "forged", NoClaims)

\* the same header and payload under a signature made with another key
Forged(tok) == [tok EXCEPT !.sig = "forged"]

\* what a create_access_token call was given
Issued(subject, delta, t_ms) == [subject |-> subject, delta |-> delta, at_ms |-> t_ms]

IssueLocal ==
    /\ \E subject \in Subjects, delta \in Deltas, frac \in ClockFractions :
          /\ held' = create_access_token(subject, delta, now * MILLI + frac)
          /\ last' = [op |-> "issue", at |-> now,
                       issued |-> Issued(subject, delta, now * MILLI + frac)]
    /\ UNCHANGED <<settings, now, ticks, cache, users, reqs>>

ValidateLocal ==
    /\ held # NoToken
    /\ \E tok \in {held, Forged(held)} :
          LET r == validate_local_token(tok, now)
          IN  last' = [op |-> "validate_local", at |-> now, tok |-> tok,
                       ok |-> r.ok, claims |-> r.claims, issued |-> last.issued]
    /\ UNCHANGED <<settings, now, ticks, cache, held, users, reqs>>

InitLocal ==
    /\ settings \in ValidSettings
    /\ now = 0
    /\ ticks = 0
    /\ cache = EmptyCache
    /\ held = NoToken
    /\ users = {}
    /\ reqs = <<>>
    /\ last = NoOp

NextLocal == Tick \/ IssueLocal \/ ValidateLocal

SpecLocal == InitLocal /\ [][NextLocal]_vars

\* C1: a token signed with the service's secret whose exp is earlier than the
\* time of the call is rejected by validate_local_token.
C1_ExpiredLocalTokenRejected ==
    ( /\ last.op = "validate_local"
      /\ last.tok.sig = "local"
      /\ "exp" \in DOMAIN last.tok.claims
      /\ last.tok.claims.exp < last.at )
    => ~last.ok

\* the latest operation validated the token as create_access_token made it,
\* with a positive expires_delta, before issue time + expires_delta
RoundTrip ==
    /\ last.op = "validate_local"
    /\ last.tok = held
    /\ last.issued.delta > 0
    /\ last.at * MILLI < last.issued.at_ms + last.issued.delta

\* C14 as stated: the round trip succeeds and returns sub = str(subject) and
\* exp = issue time + expires_delta.
C14_RoundTrip ==
    RoundTrip
    => /\ last.ok
       /\ Get(last.claims, "sub") = last.issued.subject.v
       /\ Get(last.claims, "exp") * MILLI = last.issued.at_ms + last.issued.delta

\* C14 amended: the round trip succeeds and returns sub = str(subject) and
\* exp = the whole seconds of issue time + expires_delta.
C14_RoundTripWholeSeconds ==
    RoundTrip
    => /\ last.ok
       /\ Get(last.claims, "sub") = last.issued.subject.v
       /\ Get(last.claims, "exp") * MILLI <= last.issued.at_ms + last.issued.delta
       /\ last.issued.at_ms + last.issued.delta < (Get(last.claims, "exp") + 1) * MILLI

\* C14 witness: a token for a UUID subject issued in the middle of a second
\* and validated a second later
C14_Witness ==
    /\ RoundTrip
    /\ last.issued.subject.t = "uuid"
    /\ last.issued.at_ms % MILLI # 0
    /\ last.at * MILLI > last.issued.at_ms
    /\ last.ok

\* ------------------------------------------------------------------------
\* Remote validation as a function of the token (SpecRemote)
\* ------------------------------------------------------------------------
OtherIssuer == "https://evil.example"
OtherClient == "client-2"

AudValues == {AudStr(ClientId), AudStr(OtherClient), AudStr(""),
              AudList(<<ClientId, OtherClient>>), AudList(<<OtherClient>>), AudList(<<>>)}

\* a provider token that passes every check at times 0 and 1
GoodClaims == [iss |-> IssuerUrl, sub |-> "s1", exp |-> FarFuture, email |-> "a@example.com"]

\* claims that differ from GoodClaims in the issuer, the subject or a time
ClaimVariants ==
    {GoodClaims}
    \cup {[GoodClaims EXCEPT !.iss = i] : i \in {"https://idp.example/", OtherIssuer}}
    \cup {[GoodClaims EXCEPT !.sub = ""]}
    \cup {[k \in {"iss", "exp", "email"} |-> GoodClaims[k]]}
    \cup {[k \in {"sub", "exp", "email"} |-> GoodClaims[k]]}
    \cup {[GoodClaims EXCEPT !.exp = e] : e \in {-LEEWAY - 1, -LEEWAY, -LEEWAY + 1}}
    \cup {[k \in {"iss", "sub", "email"} |-> GoodClaims[k]]}
    \cup {[k \in DOMAIN GoodClaims \cup {"nbf"} |-> IF k = "nbf" THEN n ELSE GoodClaims[k]] :
             n \in {LEEWAY, LEEWAY + 1, LEEWAY + 2}}
    \cup {[k \in DOMAIN GoodClaims \cup {"iat"} |-> IF k = "iat" THEN n ELSE GoodClaims[k]] :
             n \in {LEEWAY, LEEWAY + 1, LEEWAY + 2}}

WithAud(c, a) == [k \in DOMAIN c \cup {"aud"} |-> IF k = "aud" THEN a ELSE c[k]]

RemoteTokens ==
    {Token(3, "object", k, c) : k \in {"k1", "forged"}, c \in ClaimVariants}
    \cup {Token(3, "object", k, WithAud(c, a)) :
             k \in {"k1", "forged"}, c \in ClaimVariants, a \in AudValues}

\* the key endpoint answers with the provider's current key set
HealthyResponses == {[kind |-> "ok", body |-> "jwks_k1"], [kind |-> "ok", body |-> "jwks_k2"]}

ValidateHealthy == RemoteValidateWith(HealthyResponses)

InitRemote ==
    /\ settings \in ValidSettings
    /\ now \in {0, 1}
    /\ ticks = 0
    /\ cache = EmptyCache
    /\ held \in RemoteTokens
    /\ users = {}
    /\ reqs = <<>>
    /\ last = NoOp

NextRemote == ValidateHealthy

SpecRemote == InitRemote /\ [][NextRemote]_vars

\* C2: with a client id configured, a token that validate_oauth_token accepts
\* has an aud claim which, as a list, contains the client id.
C2_AudienceEnforced ==
    (last.op = "validate" /\ last.ok /\ settings.CLIENT_ID # None)
    => /\ "aud" \in DOMAIN held.claims
       /\ settings.CLIENT_ID \in AudMembers(held.claims.aud)

\* the token's time claims are valid at time t, within the leeway
TimesValid(claims, t) ==
    /\ "exp" \in DOMAIN claims => claims.exp >= t - LEEWAY
    /\ "nbf" \in DOMAIN claims => claims.nbf <= t + LEEWAY
    /\ "iat" \in DOMAIN claims => claims.iat <= t + LEEWAY

\* C17: a token the classifier routes to the remote validator, signed by a
\* key of the served key set, with a non-empty sub, valid times and an aud
\* that contains the client id, is accepted by validate_oauth_token: the
\* issuer check does not reject what the classifier matched.
C17_ClassifierAndValidatorAgree ==
    ( /\ last.op = "validate"
      /\ detect_token_type(held, settings) = TokenType_OAUTH
      /\ ~settings.DISABLE_OAUTH
      /\ last.fetch = "ok"
      /\ held.sig \in KeyIds(last.served)
      /\ Get(held.claims, "sub") \notin {None, ""}
      /\ TimesValid(held.claims, last.at)
      /\ "aud" \in DOMAIN held.claims
      /\ settings.CLIENT_ID \in AudMembers(held.claims.aud) )
    => last.ok

\* the latest validation failed on nothing but, possibly, the time claims:
\* keys served, signature by one of them, the configured issuer, a sub, an
\* aud that holds the client id
OtherwiseValid ==
    /\ last.op = "validate"
    /\ last.fetch = "ok"
    /\ held.sig \in KeyIds(last.served)
    /\ Get(held.claims, "iss") = settings.ISSUER
    /\ Get(held.claims, "sub") \notin {None, ""}
    /\ "aud" \in DOMAIN held.claims
    /\ settings.CLIENT_ID \in AudMembers(held.claims.aud)

\* C27: an otherwise valid token is rejected when exp < now - 120, when
\* nbf > now + 120 and when iat > now + 120, and accepted when exp >= now - 120
\* and neither nbf nor iat lies that far ahead.
C27_ClockSkewLeeway ==
    OtherwiseValid =>
        /\ ("exp" \in DOMAIN held.claims /\ held.claims.exp < last.at - 120) => ~last.ok
        /\ ("nbf" \in DOMAIN held.claims /\ held.claims.nbf > last.at + 120) => ~last.ok
        /\ ("iat" \in DOMAIN held.claims /\ held.claims.iat > last.at + 120) => ~last.ok
        /\ ( /\ "exp" \in DOMAIN held.claims /\ held.claims.exp >= last.at - 120
             /\ "nbf" \in DOMAIN held.claims => held.claims.nbf <= last.at + 120
             /\ "iat" \in DOMAIN held.claims => held.claims.iat <= last.at + 120 )
           => last.ok

\* C27 witness: a token that expired exactly 120 seconds ago is accepted
C27_Witness ==
    /\ OtherwiseValid
    /\ "exp" \in DOMAIN held.claims
    /\ held.claims.exp = last.at - 120
    /\ last.ok

\* ------------------------------------------------------------------------
\* The User table (app/models.py) and the session operations on it
\* ------------------------------------------------------------------------
UserRow(id, email, full_name, is_active, is_superuser, hashed_password, provider, subject) ==
    [id |-> id, email |-> email, full_name |-> full_name, is_active |-> is_active,
     is_superuser |-> is_superuser, hashed_password |-> hashed_password,
     oauth_provider |-> provider, oauth_subject |-> subject]

\* rows made by crud.create_user: the first superuser of init_db and one
\* deactivated local account
LocalUsers ==
    { UserRow("u1", "admin@example.com", None, TRUE, TRUE, "hash1", None, None),
      UserRow("u2", "b@example.com", None, FALSE, FALSE, "hash2", None, None) }

\* uuid4 primary keys of rows added by provisioning: any id not in the table
NewIds == {"n1", "n2", "n3", "n4", "n5"}
FreshId(us) == CHOOSE i \in NewIds : \A u \in us : u.id # i

\* select(User).where(User.oauth_subject == sub) ... result.first()
ByOauthSubject(us, sub) == {u \in us : u.oauth_subject = sub}

\* session.get(User, id)
ById(us, id) == {u \in us : u.id = id}

\* the unique constraints an INSERT of row would break: only the primary key
\* and the email are checked
BrokenConstraintsNoSubject(us, row) ==
    {c \in {"id", "email"} : \E u \in us : u[c] = row[c]}

\* the unique constraints an INSERT of row would break: only the primary key
\* and the oauth_subject are checked
BrokenConstraintsNoEmail(us, row) ==
    {c \in {"id", "oauth_subject"} :
        \E u \in us : u[c] = row[c] /\ row[c] # None}

\* the unique constraints an INSERT of row would break: primary key, email
\* (unique=True), oauth_subject (unique=True, NULLs do not collide)
BrokenConstraints(us, row) ==
    {c \in {"id", "email", "oauth_subject"} :
        \E u \in us : u[c] = row[c] /\ row[c] # None}

\* ------------------------------------------------------------------------
\* Outcomes of a request
\* ------------------------------------------------------------------------
\* kind "user": the User returned; kind "http": an HTTPException with its
\* status and detail; kind "exception": any other exception leaving
\* get_current_user
Returned(u) == [kind |-> "user", status |-> 200, detail |-> None, id |-> u.id]
Http(status, detail) == [kind |-> "http", status |-> status, detail |-> detail, id |-> None]
Raised(type) == [kind |-> "exception", status |-> 500, detail |-> type, id |-> None]

\* ------------------------------------------------------------------------
\* _get_or_create_oauth_user (app/api/deps.py), in its three stretches
\* between awaits that leave the request: up to the profile request, the
\* profile response, the commit
\* ------------------------------------------------------------------------
\* What the profile endpoint does with one GET; a 200 body is a JSON object
\* (the claims it carries) or another JSON value
UserinfoResponses ==
    { [kind |-> "transport_error", body |-> NoClaims],
      [kind |-> "status_401", body |-> NoClaims],
      [kind |-> "bad_json", body |-> NoClaims],
      [kind |-> "nonobject", body |-> NoClaims],
      [kind |-> "ok", body |-> [email |-> "a@example.com", name |-> "Ann"]],
      [kind |-> "ok", body |-> [email |-> "c@example.com"]],
      [kind |-> "ok", body |-> [email |-> ""]],
      [kind |-> "ok", body |-> [name |-> "Ann"]] }

\* Python truthiness of a str | None
Nonempty(x) == x \notin {None, ""}

\* provider label derived from the configured issuer
ProviderLabel(issuer) ==
    IF issuer = None THEN "oauth"
    ELSE IF Rstrip(issuer) = "https://idp.example" THEN "idp.example"
    ELSE "evil.example"

\* a step of the function: where it stands next, what it holds, and, when it
\* is done, what it returned or raised
ProvState(pc, sub, email, full_name, out) ==
    [pc |-> pc, sub |-> sub, email |-> email, full_name |-> full_name, out |-> out]

NotDone == [kind |-> "none", status |-> 0, detail |-> None, id |-> None]

\* a lookup that is skipped: every call provisions
ProvStartNoLookup(us, s, payload) ==
    LET sub == Get(payload, "sub")
        email == Get(payload, "email")
    IN  IF s.DISABLE_OAUTH \/ ~Nonempty(sub) THEN ProvState("done", sub, None, None, Http(400, "rejected"))
        ELSE IF ~Nonempty(email) THEN ProvState("done", sub, None, None, Http(400, "Could not determine email"))
        ELSE ProvState("commit", sub, email, Get(payload, "name"), NotDone)

\* a start that asks the profile endpoint for a missing email before it
\* looks for the existing row
ProvStartLateLookup(us, s, payload) ==
    LET sub == Get(payload, "sub")
        email == Get(payload, "email")
        full_name == Get(payload, "name")
        found == ByOauthSubject(us, sub)
    IN  IF s.DISABLE_OAUTH
        THEN ProvState("done", sub, None, None, Http(400, "OAuth authentication is disabled"))
        ELSE IF ~Nonempty(sub)
        THEN ProvState("done", sub, None, None, Http(400, "missing sub claim"))
        ELSE IF ~Nonempty(email) /\ Nonempty(s.ISSUER)
        THEN ProvState("userinfo", sub, email, full_name, NotDone)
        ELSE IF found # {}
        THEN ProvState("done", sub, None, None, Returned(CHOOSE u \in found : TRUE))
        ELSE IF ~Nonempty(email)
        THEN ProvState("done", sub, email, full_name, Http(400, "Could not determine email"))
        ELSE ProvState("commit", sub, email, full_name, NotDone)

\* a start without the test of the sub claim
ProvStartNoSubCheck(us, s, payload) ==
    LET sub == Get(payload, "sub")
        email == Get(payload, "email")
        full_name == Get(payload, "name")
        found == ByOauthSubject(us, sub)
    IN  IF s.DISABLE_OAUTH
        THEN ProvState("done", sub, None, None, Http(400, "OAuth authentication is disabled"))
        ELSE IF found # {}
        THEN ProvState("done", sub, None, None, Returned(CHOOSE u \in found : TRUE))
        ELSE IF ~Nonempty(email) /\ Nonempty(s.ISSUER)
        THEN ProvState("userinfo", sub, email, full_name, NotDone)
        ELSE IF ~Nonempty(email)
        THEN ProvState("done", sub, email, full_name, Http(400, "Could not determine email"))
        ELSE ProvState("commit", sub, email, full_name, NotDone)

\* entry to the await of the profile request (or to the end, or the commit)
ProvStart(us, s, payload) ==
    LET sub == Get(payload, "sub")
        email == Get(payload, "email")
        full_name == Get(payload, "name")
        found == ByOauthSubject(us, sub)
    IN  IF s.DISABLE_OAUTH
        THEN ProvState("done", sub, None, None, Http(400, "OAuth authentication is disabled"))
        ELSE IF ~Nonempty(sub)
        THEN ProvState("done", sub, None, None, Http(400, "missing sub claim"))
        ELSE IF found # {}
        THEN ProvState("done", sub, None, None, Returned(CHOOSE u \in found : TRUE))
        ELSE IF ~Nonempty(email) /\ Nonempty(s.ISSUER)
        THEN ProvState("userinfo", sub, email, full_name, NotDone)
        ELSE IF ~Nonempty(email)
        THEN ProvState("done", sub, email, full_name, Http(400, "Could not determine email"))
        ELSE ProvState("commit", sub, email, full_name, NotDone)

\* a fallback that provisions with a placeholder address when none is found
ProvUserinfoPlaceholder(st, ui) ==
    LET usable == ui.kind = "ok"
        email == IF usable THEN Get(ui.body, "email") ELSE st.email
    IN  IF Nonempty(email) THEN ProvState("commit", st.sub, email, st.full_name, NotDone)
        ELSE ProvState("commit", st.sub, "unknown@example.com", st.full_name, NotDone)

\* a profile response whose name replaces the name of the token
ProvUserinfoOverrideName(st, ui) ==
    LET usable == ui.kind = "ok"
        email == IF usable THEN Get(ui.body, "email") ELSE st.email
        full_name == IF usable THEN Get(ui.body, "name") ELSE st.full_name
    IN  IF ~Nonempty(email)
        THEN ProvState("done", st.sub, email, full_name, Http(400, "Could not determine email"))
        ELSE ProvState("commit", st.sub, email, full_name, NotDone)

\* the profile response arrives: status check, json(), the two reads, and
\* the test that an email is known by now
ProvUserinfo(st, ui) ==
    LET usable == ui.kind = "ok"
        email == IF usable THEN Get(ui.body, "email") ELSE st.email
        full_name == IF usable /\ ~Nonempty(st.full_name) THEN Get(ui.body, "name")
                     ELSE st.full_name
    IN  IF ~Nonempty(email)
        THEN ProvState("done", st.sub, email, full_name, Http(400, "Could not determine email"))
        ELSE ProvState("commit", st.sub, email, full_name, NotDone)

\* the row the function adds to the session
NewUser(us, s, st) ==
    UserRow(FreshId(us), st.email, st.full_name, TRUE, FALSE, None,
            ProviderLabel(s.ISSUER), st.sub)

\* the INSERT of row: it succeeds, or breaks the constraints `broken`
Insert(us, st, row, broken) ==
    IF broken = {}
    THEN [users |-> us \cup {row}, st |-> [st EXCEPT !.pc = "done", !.out = Returned(row)],
          broken |-> broken]
    ELSE [users |-> us, st |-> [st EXCEPT !.pc = "done", !.out = Raised("IntegrityError")],
          broken |-> broken]

InsertRow(us, st, row) == Insert(us, st, row, BrokenConstraints(us, row))

\* session.add, commit, refresh
ProvCommit(us, s, st) == InsertRow(us, st, NewUser(us, s, st))

\* an end of get_current_user that does not look at is_active
GatewayFinishNoActive(us, out) == out

\* the end of get_current_user: not found, inactive, or the user
GatewayFinish(us, out) ==
    IF out.kind # "user" THEN out
    ELSE LET u == CHOOSE x \in us : x.id = out.id
         IN  IF ~u.is_active THEN Http(400, "Inactive user") ELSE out

\* ------------------------------------------------------------------------
\* validate_token and get_current_user, one request at a time (SpecGateway)
\* ------------------------------------------------------------------------
\* validate_token's result from the remote validator's r / the local one's;
\* `how` is the validator that accepted the signature (None when it did not)
ByJwks(r) ==
    [res |-> r.res, type |-> TokenType_OAUTH, cache |-> r.cache, net |-> r.net,
     how |-> IF r.res.ok THEN "jwks" ELSE None, keys |-> r.cache.keys]

BySecret(r, c) ==
    [res |-> r, type |-> TokenType_LOCAL, cache |-> c, net |-> 0,
     how |-> IF r.ok THEN "secret" ELSE None, keys |-> None]

\* validate_token: the classifier picks the validator
validate_token(tok, s, t, c, resp) ==
    IF detect_token_type(tok, s) = TokenType_OAUTH
    THEN ByJwks(validate_oauth_token(tok, s, t, c, resp))
    ELSE BySecret(validate_local_token(tok, t), c)

\* what _get_or_create_oauth_user did: the table afterwards, what it returned
\* or raised, profile requests and commits
Provisioned(table, out, asked, commits) ==
    [users |-> table, out |-> out, asked |-> asked, commits |-> commits]

AfterCommit(r, asked) == Provisioned(r.users, r.st.out, asked, 1)

\* the function from the state b it is in once the profile request, if any,
\* is answered
FromEmailKnown(us, s, b, asked) ==
    IF b.pc = "commit" THEN AfterCommit(ProvCommit(us, s, b), asked)
    ELSE Provisioned(us, b.out, asked, 0)

\* the function from the state a it is in at its first await
FromStart(us, s, a, ui) ==
    IF a.pc = "userinfo" THEN FromEmailKnown(us, s, ProvUserinfo(a, ui), 1)
    ELSE FromEmailKnown(us, s, a, 0)

\* _get_or_create_oauth_user run without interruption; ui is what the profile
\* endpoint answers if it is asked
get_or_create_oauth_user(us, s, payload, ui) ==
    FromStart(us, s, ProvStart(us, s, payload), ui)

\* what a get_current_user call did: its outcome, the table and the cache
\* afterwards, the validation v it rests on, profile requests and commits
Call(out, table, v, asked, commits) ==
    [out |-> out, users |-> table, cache |-> v.cache, type |-> v.type, how |-> v.how,
     keys |-> v.keys, net |-> v.net, asked |-> asked, commits |-> commits]

\* the end of the remote branch
AfterProvisioning(p, v) == Call(GatewayFinish(p.users, p.out), p.users, v, p.asked, p.commits)

\* the local branch: session.get(User, sub); sub is taken as a well-formed
\* primary key, present in the table or not
LocalLookup(found, us, v) ==
    IF found = {} THEN Call(Http(404, "User not found"), us, v, 0, 0)
    ELSE Call(GatewayFinish(us, Returned(CHOOSE u \in found : TRUE)), us, v, 0, 0)

\* get_current_user once validate_token ended with v
AfterValidation(v, tok, s, us, ui) ==
    IF ~v.res.ok
    THEN Call(Http(403, "Could not validate credentials: " \o v.res.err), us, v, 0, 0)
    ELSE IF v.type = TokenType_LOCAL
    THEN LocalLookup(ById(us, Get(v.res.claims, "sub")), us, v)
    ELSE AfterProvisioning(get_or_create_oauth_user(us, s, v.res.claims, ui), v)

\* get_current_user run without interruption
get_current_user(tok, s, t, c, us, resp, ui) ==
    AfterValidation(validate_token(tok, s, t, c, resp), tok, s, us, ui)

\* claims of a provider token for subject sub, with the optional profile claims
ProviderClaims(sub, profile) ==
    [k \in {"iss", "sub", "exp", "aud"} \cup DOMAIN profile |->
        IF k = "iss" THEN IssuerUrl ELSE IF k = "sub" THEN sub
        ELSE IF k = "exp" THEN FarFuture ELSE IF k = "aud" THEN AudStr(ClientId)
        ELSE profile[k]]

Profiles == {NoClaims, [email |-> "a@example.com"], [email |-> "b@example.com", name |-> "Bob"],
             [name |-> "Bob"]}

GatewayTokens ==
    {NoToken}
    \cup {Token(3, "object", k, [exp |-> FarFuture, sub |-> id]) :
             k \in {"local", "forged"}, id \in {"u1", "u2", "u9"}}
    \cup {Token(3, "object", "k1", ProviderClaims(sub, pr)) : sub \in {"s1", "s2"}, pr \in Profiles}
    \cup {Token(3, "object", k, ProviderClaims("s1", [email |-> "a@example.com"])) :
             k \in {"forged", "local"}}
    \cup {Token(3, "object", "k1", [ProviderClaims("s1", [email |-> "a@example.com"]) EXCEPT !.iss = OtherIssuer])}
    \cup {Token(3, "object", "local", [exp |-> FarFuture])}

GatewayResponses ==
    {[kind |-> "ok", body |-> "jwks_k1"], [kind |-> "transport_error"],
     [kind |-> "ok", body |-> "dict_nokeys"]}

\* the record of a get_current_user call that ended with r
AuthRecord(r, t, us, ui, c) ==
    [op |-> "auth", at |-> t, out |-> r.out, type |-> r.type,
     how |-> r.how, keys |-> r.keys, net |-> r.net, asked |-> r.asked,
     commits |-> r.commits, pre_users |-> us, pre_cache |-> c,
     ui |-> IF r.asked = 1 THEN ui ELSE [kind |-> None, body |-> NoClaims],
     users |-> r.users, cache |-> r.cache]

GetCurrentUser ==
    /\ \E tok \in GatewayTokens, resp \in GatewayResponses, ui \in UserinfoResponses :
          /\ held' = tok
          /\ last' = AuthRecord(get_current_user(tok, settings, now, cache, users, resp, ui),
                                now, users, ui, cache)
    /\ cache' = last'.cache
    /\ users' = last'.users
    /\ UNCHANGED <<settings, now, ticks, reqs>>

InitGateway ==
    /\ settings \in ValidSettings
    /\ now = 0
    /\ ticks = 0
    /\ cache = EmptyCache
    /\ held = NoToken
    /\ users = LocalUsers
    /\ reqs = <<>>
    /\ last = NoOp

NextGateway == GetCurrentUser

SpecGateway == InitGateway /\ [][NextGateway]_vars

\* the latest operation is a get_current_user call
Authenticated == last.op = "auth"

\* C3: a User is returned, or a row is created, only in a request whose token
\* carries a signature made by the key of the domain the classifier chose,
\* and which that domain's validator accepted: the service's secret for
\* LOCAL, a key of the fetched key set for REMOTE.
C3_NoUserWithoutVerifiedSignature ==
    (Authenticated /\ (last.out.kind = "user" \/ users # last.pre_users))
    => IF detect_token_type(held, settings) = TokenType_OAUTH
       THEN last.how = "jwks" /\ held.sig \in KeyIds(last.keys)
       ELSE last.how = "secret" /\ held.sig = "local"

\* C3 witness: a row was provisioned for a token verified against the key set
C3_Witness ==
    /\ Authenticated
    /\ users # last.pre_users
    /\ last.out.kind = "user"
    /\ last.how = "jwks"
    /\ held.sig = "k1"

\* the profile request was made and gave no email
FallbackGaveNoEmail ==
    /\ last.asked = 1
    /\ (last.ui.kind # "ok" \/ ~Nonempty(Get(last.ui.body, "email")))

\* C10: for a validated first-seen subject whose claims carry no email, a
\* profile request that fails or carries no email ends the call with the
\* missing-email error, without a commit and with the User table unchanged.
C10_MissingEmailFails ==
    ( /\ Authenticated
      /\ last.how = "jwks"
      /\ ByOauthSubject(last.pre_users, Get(held.claims, "sub")) = {}
      /\ ~Nonempty(Get(held.claims, "email"))
      /\ FallbackGaveNoEmail )
    => /\ last.out = Http(400, "Could not determine email")
       /\ last.commits = 0
       /\ users = last.pre_users

C10_Witness ==
    /\ Authenticated
    /\ last.how = "jwks"
    /\ ~Nonempty(Get(held.claims, "email"))
    /\ last.asked = 1
    /\ last.ui.kind = "status_401"
    /\ last.out = Http(400, "Could not determine email")

\* the three failures of the gateway's contract
InvalidToken(out) == out.kind = "http" /\ out.status = 403
UserNotFound == Http(404, "User not found")
UserInactive == Http(400, "Inactive user")

\* C11: every get_current_user call returns a User or ends in one of
\* InvalidToken, UserNotFound, UserInactive; no other HTTP error and no other
\* exception leaves it.
C11_ClosedOutcomeSet ==
    Authenticated =>
        \/ last.out.kind = "user"
        \/ InvalidToken(last.out)
        \/ last.out = UserNotFound
        \/ last.out = UserInactive

\* the token is routed to the remote validator
RoutedRemote == detect_token_type(held, settings) = TokenType_OAUTH

\* C12: with DISABLE_OAUTH set, a request whose token is classified OAUTH is
\* rejected with no key request, the key cache as it was, no profile request
\* and the User table as it was.
C12_DisabledRemoteRejected ==
    (Authenticated /\ settings.DISABLE_OAUTH /\ RoutedRemote)
    => /\ InvalidToken(last.out)
       /\ last.net = 0
       /\ cache = last.pre_cache
       /\ last.asked = 0
       /\ last.commits = 0
       /\ users = last.pre_users

\* C12 witness: a token the provider signed, presented while the flag is set
C12_Witness ==
    /\ Authenticated
    /\ settings.DISABLE_OAUTH
    /\ RoutedRemote
    /\ held.sig = "k1"
    /\ InvalidToken(last.out)
    /\ last.net = 0

\* the token is signed by a provider key and names an issuer other than the
\* configured one
ForeignIssuer ==
    /\ Decodes(held, {"k1", "k2"})
    /\ settings.ISSUER # None
    /\ Nonempty(Get(held.claims, "iss"))
    /\ Rstrip(held.claims.iss) # Rstrip(settings.ISSUER)

\* C13: a provider-signed token whose iss is not the configured issuer is
\* classified LOCAL, causes no key request and leaves the key cache alone,
\* fails the local signature check, and the request is rejected with the
\* User table unchanged.
C13_IssuerMismatchRoutedLocal ==
    (Authenticated /\ ForeignIssuer)
    => /\ last.type = TokenType_LOCAL
       /\ last.net = 0
       /\ cache = last.pre_cache
       /\ last.how = None
       /\ InvalidToken(last.out)
       /\ users = last.pre_users

\* C13 witness: the mismatching token is rejected while remote authentication
\* is on and the key set that would verify it is in the cache
C13_Witness ==
    /\ Authenticated
    /\ ForeignIssuer
    /\ ~settings.DISABLE_OAUTH
    /\ held.sig \in KeyIds(cache.keys)
    /\ last.type = TokenType_LOCAL
    /\ InvalidToken(last.out)

\* the local validator accepted the token
LocalAccepted == Authenticated /\ last.type = TokenType_LOCAL /\ last.how = "secret"

\* C18: a token the local validator accepts carries a sub claim, so a request
\* with a correctly signed token without sub ends as InvalidToken.
C18_LocalValidationGuaranteesSub ==
    LocalAccepted => "sub" \in DOMAIN held.claims

\* what the caller sees when the token is a string that is no JWT
MalformedOutcome ==
    get_current_user(NoToken, settings, now, cache, users, [kind |-> "transport_error"],
                     [kind |-> "transport_error", body |-> NoClaims]).out

\* C19: every request whose token fails validation ends in one and the same
\* outcome, whatever the validator and whatever the reason (the outcome a
\* malformed token gets), and that outcome is neither UserNotFound nor
\* UserInactive.
C19_FailureNormalization ==
    (Authenticated /\ last.how = None)
    => /\ last.out = MalformedOutcome
       /\ last.out \notin {UserNotFound, UserInactive}

\* C20: a returned User is active; a valid LOCAL token whose sub is no row's
\* id ends as UserNotFound, one whose sub is the id of an inactive row ends
\* as UserInactive, and one whose sub is the id of an active row returns
\* that row.
C20_GatewayResult ==
    Authenticated =>
        /\ last.out.kind = "user"
             => /\ ById(users, last.out.id) # {}
                /\ \A u \in ById(users, last.out.id) : u.is_active
        /\ LocalAccepted
             => /\ ById(last.pre_users, Get(held.claims, "sub")) = {}
                     => last.out = UserNotFound
                /\ \A u \in ById(last.pre_users, Get(held.claims, "sub")) :
                       last.out = IF u.is_active THEN Returned(u) ELSE UserInactive

\* C20 witness: a valid local token of the deactivated account
C20_Witness ==
    /\ LocalAccepted
    /\ \E u \in ById(last.pre_users, Get(held.claims, "sub")) : ~u.is_active
    /\ last.out = UserInactive

\* the remote validator accepted the token
RemoteAccepted == Authenticated /\ last.how = "jwks"

\* the rows with the token's sub before the call, and the rows the call added
Existing == ByOauthSubject(last.pre_users, Get(held.claims, "sub"))
Created == users \ last.pre_users

\* C21: when a row with oauth_subject = sub exists, the call returns that
\* row, leaves the User table exactly as it was, asks the profile endpoint
\* nothing and commits nothing, whatever email and name the token carries.
C21_ExistingIdentityUnchanged ==
    (RemoteAccepted /\ Existing # {})
    => /\ last.out.kind = "user"
       /\ \A u \in Existing : last.out.id = u.id
       /\ users = last.pre_users
       /\ last.asked = 0
       /\ last.commits = 0

\* C21 witness: the token's email differs from the stored one
C21_Witness ==
    /\ RemoteAccepted
    /\ \E u \in Existing : Nonempty(Get(held.claims, "email")) /\ held.claims.email # u.email
    /\ last.out.kind = "user"
    /\ users = last.pre_users

\* C22: the profile endpoint is asked only for an accepted token with a
\* first-seen sub and no email claim, never when the claims carry an email;
\* a row created after a 200 answer has the answer's email, and the
\* answer's name only if the claims carry no name.
C22_ProfileFallback ==
    Authenticated =>
        /\ last.asked = 1
             => RemoteAccepted /\ Existing = {} /\ ~Nonempty(Get(held.claims, "email"))
        /\ Nonempty(Get(held.claims, "email")) => last.asked = 0
        /\ \A r \in Created :
              IF last.asked = 1
              THEN /\ last.ui.kind = "ok"
                   /\ r.email = Get(last.ui.body, "email")
                   /\ r.full_name = IF Nonempty(Get(held.claims, "name"))
                                    THEN held.claims.name
                                    ELSE Get(last.ui.body, "name")
              ELSE /\ r.email = Get(held.claims, "email")
                   /\ r.full_name = Get(held.claims, "name")

\* C22 witness: the token carries a name and no email, the answer carries
\* both, and the row keeps the token's name
C22_Witness ==
    /\ RemoteAccepted
    /\ last.asked = 1
    /\ Nonempty(Get(held.claims, "name"))
    /\ Nonempty(Get(last.ui.body, "name"))
    /\ \E r \in Created : r.full_name = held.claims.name /\ r.full_name # last.ui.body.name

\* C25: one call issues at most one key request, one profile request and one
\* commit; a call whose token is classified LOCAL issues none and leaves the
\* key cache and the User table alone.
C25_NoInternalRetries ==
    Authenticated =>
        /\ last.net <= 1
        /\ last.asked <= 1
        /\ last.commits <= 1
        /\ last.type = TokenType_LOCAL
             => /\ last.net = 0 /\ last.asked = 0 /\ last.commits = 0
                /\ cache = last.pre_cache
                /\ users = last.pre_users

\* C25 witness: the key request failed and nothing else was tried
C25_Witness ==
    /\ Authenticated
    /\ last.type = TokenType_OAUTH
    /\ ~settings.DISABLE_OAUTH
    /\ last.net = 1
    /\ last.how = None
    /\ cache = last.pre_cache
    /\ InvalidToken(last.out)

\* ------------------------------------------------------------------------
\* detect_token_type and validate_token over arbitrary strings (SpecClassify)
\* ------------------------------------------------------------------------
\* iss claims of a JSON-object payload; None: the claim is absent
IssValues == {None, "", "nonstring", "nonstring_falsy", IssuerUrl, IssuerUrlSlash,
              "https://idp.example//", OtherIssuer, "https://evil.example/"}

ClassifyClaims(iss) ==
    IF iss = None THEN [sub |-> "u1", exp |-> FarFuture]
    ELSE [iss |-> iss, sub |-> "u1", exp |-> FarFuture, aud |-> AudStr(ClientId)]

\* strings presented as bearer tokens: other segment counts, three segments
\* with a middle segment of every kind, and JWTs whose payload is an object
ClassifyTokens ==
    {Token(n, "garbage", "forged", NoClaims) : n \in {1, 2, 4, 5}}
    \cup {Token(3, p, k, NoClaims) : p \in {"garbage", "nonjson", "nonobject"},
                                     k \in {"local", "k1", "forged"}}
    \cup {Token(3, "object", k, ClassifyClaims(iss)) : k \in {"local", "k1", "forged"},
                                                       iss \in IssValues}

\* the record of a validate_token call on tok: what detect_token_type
\* answered and how the call, which ended with v, went
ClassifyRecord(detected, v) ==
    [op |-> "classify", detected |-> detected, type |-> v.type, ok |-> v.res.ok,
     net |-> v.net, cache |-> v.cache]

ValidateToken ==
    /\ \E tok \in ClassifyTokens, resp \in GatewayResponses :
          /\ held' = tok
          /\ last' = ClassifyRecord(detect_token_type(tok, settings),
                                    validate_token(tok, settings, now, cache, resp))
    /\ cache' = last'.cache
    /\ UNCHANGED <<settings, now, ticks, users, reqs>>

InitClassify ==
    /\ settings \in ValidSettings
    /\ now = 0
    /\ ticks = 0
    /\ cache = EmptyCache
    /\ held = NoToken
    /\ users = LocalUsers
    /\ reqs = <<>>
    /\ last = NoOp

NextClassify == ValidateToken

SpecClassify == InitClassify /\ [][NextClassify]_vars

Classified == last.op = "classify"

\* the string is no three-segment token with a JSON-object payload
Unparseable(tok) == tok.segs # 3 \/ tok.payload # "object"

\* the payload is an object whose iss is not a string
NonStringIss(tok) == ~Unparseable(tok) /\ Get(tok.claims, "iss") \in NonStrings

\* C15 as stated: detect_token_type answers LOCAL or OAUTH for every string,
\* and every malformed string (wrong segment count, undecodable or non-JSON
\* or non-object payload, non-string iss) is classified LOCAL and then
\* rejected by the local validator.
C15_ClassificationTotal ==
    Classified =>
        /\ last.detected \in {TokenType_LOCAL, TokenType_OAUTH}
        /\ (Unparseable(held) \/ NonStringIss(held))
             => last.detected = TokenType_LOCAL /\ last.type = TokenType_LOCAL /\ ~last.ok

\* C15 amended: as stated, except that a token with a non-string iss is
\* rejected by the local validator only if it is not signed with the
\* service's secret.
C15_ClassificationTotalAmended ==
    Classified =>
        /\ last.detected \in {TokenType_LOCAL, TokenType_OAUTH}
        /\ (Unparseable(held) \/ NonStringIss(held))
             => last.detected = TokenType_LOCAL /\ last.type = TokenType_LOCAL
        /\ Unparseable(held) => ~last.ok
        /\ (NonStringIss(held) /\ held.sig # "local") => ~last.ok

\* C15 witness: a three-segment string whose middle segment is JSON but no
\* object, presented while an issuer is configured, went to the local
\* validator and was rejected
C15_Witness ==
    /\ Classified
    /\ held.segs = 3 /\ held.payload = "nonobject"
    /\ settings.ISSUER # None
    /\ last.detected = TokenType_LOCAL
    /\ ~last.ok

\* C16: detect_token_type answers OAUTH exactly when the token has three
\* segments, its payload is a JSON object, an issuer is configured, and iss
\* is a string equal to the configured issuer once trailing slashes are
\* stripped from both.
C16_ClassificationRule ==
    Classified =>
        ( last.detected = TokenType_OAUTH
          <=> /\ held.segs = 3
              /\ held.payload = "object"
              /\ settings.ISSUER # None
              /\ Get(held.claims, "iss") \notin NonStrings \cup {None, ""}
              /\ Rstrip(Get(held.claims, "iss")) = Rstrip(settings.ISSUER) )

\* C16 witness: iss and the configured issuer differ in the trailing slash
\* only, and the token is routed to the remote validator
C16_Witness ==
    /\ Classified
    /\ settings.ISSUER = IssuerUrlSlash
    /\ Get(held.claims, "iss") = IssuerUrl
    /\ last.detected = TokenType_OAUTH
    /\ last.type = TokenType_OAUTH

\* ------------------------------------------------------------------------
\* Concurrent requests in _get_or_create_oauth_user (SpecProv)
\* ------------------------------------------------------------------------
\* Each request is a task of the event loop holding its own session; a task
\* is suspended only at an await, so what lies between two awaits is one
\* step.  The requests enter the function with validated claims.
Reqs == 1..NumReqs

Idle == [pc |-> "idle", sub |-> None, email |-> None, full_name |-> None, out |-> NotDone,
         claims_email |-> None, after |-> {}, broken |-> {}, final |-> NotDone]

\* validated claims the requests arrive with
ProvPayloads ==
    {[k \in {"sub"} \cup DOMAIN pr |-> IF k = "sub" THEN sub ELSE pr[k]] :
        sub \in {"s1", "s2"}, pr \in Profiles}
    \cup {[email |-> "a@example.com"], [sub |-> "", email |-> "a@example.com"]}

\* the request record after a stretch of the function that ended in state st
Advance(r, st, us) ==
    [r EXCEPT !.pc = st.pc, !.sub = st.sub, !.email = st.email, !.full_name = st.full_name,
              !.out = st.out,
              !.final = IF st.pc = "done" THEN GatewayFinish(us, st.out) ELSE NotDone]

ReqStart(i) ==
    /\ reqs[i].pc = "idle"
    /\ \E payload \in ProvPayloads :
          LET st == ProvStart(users, settings, payload)
              r == [reqs[i] EXCEPT !.claims_email = Get(payload, "email"),
                                   !.after = {j \in Reqs : reqs[j].pc = "done"}]
          IN  reqs' = [reqs EXCEPT ![i] = Advance(r, st, users)]
    /\ UNCHANGED <<settings, now, ticks, cache, held, users, last>>

ReqUserinfo(i) ==
    /\ reqs[i].pc = "userinfo"
    /\ \E ui \in UserinfoResponses :
          reqs' = [reqs EXCEPT ![i] = Advance(reqs[i], ProvUserinfo(reqs[i], ui), users)]
    /\ UNCHANGED <<settings, now, ticks, cache, held, users, last>>

\* the request record after the commit ended with r
Committed(q, r) == [Advance(q, r.st, r.users) EXCEPT !.broken = r.broken]

ReqCommit(i) ==
    /\ reqs[i].pc = "commit"
    /\ \E r \in {ProvCommit(users, settings, reqs[i])} :
          /\ users' = r.users
          /\ reqs' = [reqs EXCEPT ![i] = Committed(reqs[i], r)]
    /\ UNCHANGED <<settings, now, ticks, cache, held, last>>

InitProv ==
    /\ settings \in ValidSettings
    /\ now = 0
    /\ ticks = 0
    /\ cache = EmptyCache
    /\ held = NoToken
    /\ users = LocalUsers
    /\ reqs = [i \in Reqs |-> Idle]
    /\ last = NoOp

NextProv == \E i \in Reqs : ReqStart(i) \/ ReqUserinfo(i) \/ ReqCommit(i)

SpecProv == InitProv /\ [][NextProv]_vars

Done(i) == reqs[i].pc = "done"

\* request i entered the function after request j had left it, with the same
\* sub and the same email claim
SequentialSameClaims(j, i) ==
    /\ Done(i) /\ j \in reqs[i].after
    /\ Nonempty(reqs[i].sub)
    /\ reqs[i].sub = reqs[j].sub
    /\ reqs[i].claims_email = reqs[j].claims_email

C8_DuplicateInsertRaceHandled ==
    \A i \in Reqs :
        (Done(i) /\ "oauth_subject" \in reqs[i].broken) => reqs[i].final.kind # "exception"

\* C9: no two rows of the User table carry the same non-null oauth_subject.
C9_OneUserPerOauthSubject ==
    \A u, v \in users :
        (u.oauth_subject # None /\ u.oauth_subject = v.oauth_subject) => u = v

\* C9 witness: two requests raced for one subject with different emails; one
\* row exists and the other insert was refused on oauth_subject alone
C9_Witness ==
    \E i \in Reqs :
        /\ Done(i)
        /\ reqs[i].broken = {"oauth_subject"}
        /\ Cardinality(ByOauthSubject(users, reqs[i].sub)) = 1

\* ------------------------------------------------------------------------
\* The User table under local creation and provisioning (SpecStore)
\* ------------------------------------------------------------------------
FIRST_SUPERUSER == "admin@example.com"

\* get_password_hash: a bcrypt hash, never None
get_password_hash(password) == "bcrypt:" \o password

\* UserCreate objects handed to crud.create_user: an ordinary account, a
\* deactivated one, a second superuser
UserCreates ==
    { [email |-> "a@example.com", password |-> "password1", full_name |-> None,
       is_active |-> TRUE, is_superuser |-> FALSE],
      [email |-> "c@example.com", password |-> "password1", full_name |-> None,
       is_active |-> FALSE, is_superuser |-> FALSE],
      [email |-> "c@example.com", password |-> "password1", full_name |-> None,
       is_active |-> TRUE, is_superuser |-> TRUE] }

\* answers of the profile endpoint in this specification: a failure, an
\* answer with email and name, an answer with another email
StoreUserinfo ==
    {ui \in UserinfoResponses :
        ui.kind = "status_401" \/ (ui.kind = "ok" /\ Nonempty(Get(ui.body, "email")))}

\* a row built without the password hash
CreateUserRowNoHash(us, uc) ==
    UserRow(FreshId(us), uc.email, uc.full_name, uc.is_active, uc.is_superuser,
            None, None, None)

\* db_obj = User.model_validate(user_create, update={"hashed_password": ...})
CreateUserRow(us, uc) ==
    UserRow(FreshId(us), uc.email, uc.full_name, uc.is_active, uc.is_superuser,
            get_password_hash(uc.password), None, None)

\* what a call on the table did: the table afterwards and what it returned
\* or raised
Stored(r) == [users |-> r.users, out |-> r.st.out]

\* crud.create_user: add, commit, refresh
create_user(us, uc) ==
    Stored(InsertRow(us, ProvState("commit", None, uc.email, uc.full_name, NotDone),
                     CreateUserRow(us, uc)))

\* init_db: create the first superuser unless a row has its email
init_db(us) ==
    IF \E u \in us : u.email = FIRST_SUPERUSER
    THEN [users |-> us, out |-> NotDone]
    ELSE create_user(us, [email |-> FIRST_SUPERUSER, password |-> "password1",
                          full_name |-> None, is_active |-> TRUE, is_superuser |-> TRUE])

\* the record of a call that ended with r
StoreRecord(op, r, us, payload) ==
    [op |-> op, out |-> r.out, pre_users |-> us, users |-> r.users, payload |-> payload]

InitDb ==
    /\ last' = StoreRecord("init_db", init_db(users), users, NoClaims)
    /\ users' = last'.users
    /\ UNCHANGED <<settings, now, ticks, cache, held, reqs>>

CreateUser ==
    /\ \E uc \in UserCreates :
          last' = StoreRecord("create_user", create_user(users, uc), users, NoClaims)
    /\ users' = last'.users
    /\ UNCHANGED <<settings, now, ticks, cache, held, reqs>>

\* _get_or_create_oauth_user with validated claims
Provision ==
    /\ \E payload \in ProvPayloads, ui \in StoreUserinfo :
          last' = StoreRecord("provision",
                              get_or_create_oauth_user(users, settings, payload, ui),
                              users, payload)
    /\ users' = last'.users
    /\ UNCHANGED <<settings, now, ticks, cache, held, reqs>>

\* the table after the migrations: no rows
InitStore ==
    /\ settings \in ValidSettings
    /\ now = 0
    /\ ticks = 0
    /\ cache = EmptyCache
    /\ held = NoToken
    /\ users = {}
    /\ reqs = <<>>
    /\ last = NoOp

NextStore == InitDb \/ CreateUser \/ Provision

SpecStore == InitStore /\ [][NextStore]_vars

Provisioning == last.op = "provision"
LocalCreation == last.op \in {"init_db", "create_user"}

\* C23: a row created by provisioning has oauth_subject equal to the
\* non-empty sub of the claims, a non-empty email, no hashed_password,
\* is_active true and is_superuser false; no row has an empty oauth_subject
\* and no row with an oauth_subject is a superuser.
C23_ProvisionedRowShape ==
    /\ Provisioning
         => \A r \in Created :
               /\ Nonempty(r.oauth_subject)
               /\ r.oauth_subject = Get(last.payload, "sub")
               /\ Nonempty(r.email)
               /\ r.hashed_password = None
               /\ r.is_active
               /\ ~r.is_superuser
    /\ \A r \in users :
          /\ r.oauth_subject # ""
          /\ r.oauth_subject # None => ~r.is_superuser

\* C23 witness: a row was provisioned while a local superuser exists
C23_Witness ==
    /\ Provisioning
    /\ Created # {}
    /\ \E u \in last.pre_users : u.is_superuser

\* C24: every row has a hashed_password or both oauth_subject and
\* oauth_provider; rows added by provisioning have no hashed_password and
\* rows added by create_user or init_db have no oauth_subject.
C24_CredentialInvariant ==
    /\ \A r \in users :
          \/ r.hashed_password # None
          \/ r.oauth_subject # None /\ r.oauth_provider # None
    /\ Provisioning => \A r \in Created : r.hashed_password = None
    /\ LocalCreation => \A r \in Created : r.oauth_subject = None

\* C24 witness: a local account was created next to a provisioned one
C24_Witness ==
    /\ last.op = "create_user"
    /\ Created # {}
    /\ \E u \in last.pre_users : u.oauth_subject # None

\* C30: provisioning keeps every existing row as it is, and no two rows
\* ever carry the same email.
C30_NoImplicitLinking ==
    /\ Provisioning => last.pre_users \subseteq users
    /\ \A u, v \in users : u.email = v.email => u = v

\* C30 witness: a first-seen sub arrived with the email of a local account;
\* nothing was inserted and the account is as it was
C30_Witness ==
    /\ Provisioning
    /\ Nonempty(Get(last.payload, "sub"))
    /\ ByOauthSubject(last.pre_users, Get(last.payload, "sub")) = {}
    /\ \E u \in last.pre_users :
          u.email = Get(last.payload, "email") /\ u.oauth_subject = None
    /\ last.out = Raised("IntegrityError")
    /\ users = last.pre_users

\* ------------------------------------------------------------------------
\* Concurrent fetch_jwks and clear_cache calls on the singleton (SpecFetch)
\* ------------------------------------------------------------------------
\* Each call of fetch_jwks is a task of the event loop.  Lines 41-50 run
\* without an await; the task is suspended at `await client.get` (line 53);
\* lines 54-58 run without an await once the response is there.  clear_cache
\* is synchronous.  `now` of line 41 is taken when the call starts.

\* what the key endpoint answers in this specification
FetchResponses == HealthyResponses \cup {[kind |-> "transport_error"]}

\* the configurations of this specification: fetch_jwks reads the issuer only
FetchSettings ==
    {s \in ValidSettings : s.CLIENT_ID = ClientId /\ s.ISSUER # IssuerUrlSlash
                              /\ (s.DISABLE_OAUTH <=> s.ISSUER = None)}

\* clock advances of this specification
MaxFetchTicks == 2

\* the clock advances by one second less than the freshness window: an entry
\* is fresh after one advance and stale after two
FetchTick ==
    /\ ticks < MaxFetchTicks
    /\ now' = now + CACHE_DURATION - 1
    /\ ticks' = ticks + 1
    /\ UNCHANGED <<settings, cache, held, users, reqs, last>>

\* a fetch_jwks call that has not started.  start is `now` of line 41;
\* order, during, first_after_clear and cleared record the schedule;
\* wrote is the pair the call obtained: the body of its response and its own
\* start time; over is the timestamp the cache held when the call wrote.
FetchIdle ==
    [pc |-> "idle", start |-> <<>>, order |-> 0, during |-> {}, first_after_clear |-> FALSE,
     cleared |-> FALSE, net |-> 0, ok |-> FALSE, value |-> None, err |-> None, wrote |-> <<>>,
     over |-> <<>>]

\* the schedule of call q as it starts at time t
FetchEntered(q, t, rs, pending) ==
    [q EXCEPT !.start = <<t>>,
              !.order = Cardinality({j \in Reqs : rs[j].pc # "idle"}) + 1,
              !.during = {j \in Reqs : rs[j].pc = "get"},
              !.first_after_clear = pending]

\* the call returned or raised at line 46 or 49 with outcome r
FetchReturned(q, r) ==
    [task |-> [q EXCEPT !.pc = "done", !.net = r.net, !.ok = r.ok, !.value = r.value,
                        !.err = r.err],
     cache |-> r.cache]

\* the call is suspended at line 53
FetchSuspended(q, c) == [task |-> [q EXCEPT !.pc = "get"], cache |-> c]

\* the call resumed with resp on the cache c and ended with outcome r
FetchFinished(q, resp, c, r) ==
    [task |-> [q EXCEPT !.pc = "done", !.net = r.net, !.ok = r.ok, !.value = r.value,
                        !.err = r.err,
                        !.wrote = IF resp.kind = "ok"
                                  THEN <<[keys |-> resp.body, fetched_at |-> q.start]>>
                                  ELSE <<>>,
                        !.over = IF resp.kind = "ok" THEN c.fetched_at ELSE <<>>],
     cache |-> r.cache]

\* what the calls so far left behind: pending says that the cache was
\* cleared and no call has started since, clears that it was ever cleared
FetchRecord(pending, clears) == [pending |-> pending, clears |-> clears]

\* fetch_jwks, lines 41-53
FetchStart(i) ==
    /\ reqs[i].pc = "idle"
    /\ \E st \in {IF CacheFresh(cache, now) \/ settings.ISSUER = None
                   THEN FetchReturned(FetchEntered(reqs[i], now, reqs, last.pending),
                            FetchJwks(cache, now, settings.ISSUER, [kind |-> "transport_error"]))
                   ELSE FetchSuspended(FetchEntered(reqs[i], now, reqs, last.pending), cache)} :
          /\ cache' = st.cache
          /\ reqs' = [reqs EXCEPT ![i] = st.task]
    /\ last' = FetchRecord(FALSE, last.clears)
    /\ UNCHANGED <<settings, now, ticks, held, users>>

\* fetch_jwks, lines 53-58
FetchFinish(i) ==
    /\ reqs[i].pc = "get"
    /\ \E resp \in FetchResponses :
          \E st \in {FetchFinished(reqs[i], resp, cache,
                          Fetched(StoreResponse(cache, reqs[i].start[1], resp)))} :
              /\ cache' = st.cache
              /\ reqs' = [reqs EXCEPT ![i] = st.task]
    /\ UNCHANGED last
    /\ UNCHANGED <<settings, now, ticks, held, users>>

\* clear_cache while calls may be suspended
FetchClear ==
    /\ cache' = ClearCache(cache)
    /\ reqs' = [i \in Reqs |-> IF reqs[i].pc = "get" THEN [reqs[i] EXCEPT !.cleared = TRUE]
                                                      ELSE reqs[i]]
    /\ last' = FetchRecord(TRUE, TRUE)
    /\ UNCHANGED <<settings, now, ticks, held, users>>

InitFetch ==
    /\ settings \in FetchSettings
    /\ now = 0
    /\ ticks = 0
    /\ cache = EmptyCache
    /\ held = NoToken
    /\ users = {}
    /\ reqs = [i \in Reqs |-> FetchIdle]
    /\ last = FetchRecord(FALSE, FALSE)

NextFetch == FetchTick \/ FetchClear \/ \E i \in Reqs : FetchStart(i) \/ FetchFinish(i)

SpecFetch == InitFetch /\ [][NextFetch]_vars

\* the calls that wrote an entry
Writers == {i \in Reqs : Done(i) /\ reqs[i].wrote # <<>>}

\* calls i and j were suspended at the same time
Overlapped(i, j) == i \in reqs[j].during \/ j \in reqs[i].during

\* C26: under every interleaving of fetch_jwks and clear_cache calls the
\* cache holds either no keys and no timestamp, or the keys and the
\* timestamp that one and the same refresh wrote.
C26_AtomicEntry ==
    \/ cache = EmptyCache
    \/ \E i \in Writers : reqs[i].wrote = <<cache>>

\* two overlapping refreshes that started at different times and obtained
\* different keys have both written, and the cache holds an entry
C26_Witness ==
    \E i, j \in Writers :
        /\ Overlapped(i, j)
        /\ reqs[i].start # reqs[j].start
        /\ reqs[i].wrote[1].keys # reqs[j].wrote[1].keys
        /\ cache # EmptyCache

\* C28: overlapping refreshes never lower the timestamp of the cache, and
\* once all calls have completed (no clear_cache in between) the entry in the
\* cache is the one of the writer that started last.
C28_RefreshOrdering ==
    /\ \A i \in Writers :
          reqs[i].over # <<>> => reqs[i].wrote[1].fetched_at[1] >= reqs[i].over[1]
    /\ ((\A i \in Reqs : Done(i)) /\ ~last.clears /\ Writers # {})
          => \E i \in Writers :
                /\ \A j \in Writers : reqs[j].order <= reqs[i].order
                /\ reqs[i].wrote = <<cache>>

\* C29: with the issuer configured, the first fetch_jwks call that starts
\* after a clear_cache issues a GET, and a call that was suspended when the
\* cache was cleared never installs what it obtained.
C29_ClearBeatsInflight ==
    \A i \in Reqs :
        /\ (Done(i) /\ reqs[i].first_after_clear /\ settings.ISSUER # None) => reqs[i].net = 1
        /\ (Done(i) /\ reqs[i].cleared) => reqs[i].wrote = <<>>

====
